---- MODULE Spec2Model ----
(***************************************************************************)
(* AI-Knowledge-Explorer: the retrieval-augmented chat turn (src/app.py),  *)
(* the web-search fallback (src/utils/web_search.py) and the chunker and   *)
(* document ingestion (src/utils/rag_utils.py, src/app.py main).           *)
(*                                                                         *)
(* A Python string is modelled as a sequence of non-empty tokens: the      *)
(* empty string is << >>, concatenation is \o, truthiness is # << >>.      *)
(* A distance is an integer number of 1e-5 units (1.5 is 150000).          *)
(***************************************************************************)
EXTENDS Integers, Sequences, FiniteSets, TLC

VARIABLES
    messages,        \* st.session_state.messages, the transcript
    response_mode,   \* st.session_state.response_mode
    system_prompt,   \* st.session_state.system_prompt
    SERPAPI_KEY,     \* config.SERPAPI_KEY, read once from the environment
    run,             \* the locals of chat_page in the last script run
    h_in,            \* direct call of get_chat_response: its arguments
    h_out,           \* direct call of get_chat_response: what was composed
    c_text, c_size, c_overlap,   \* chunk_text: its arguments
    c_start, c_chunks, c_spans,  \* chunk_text: start, chunks, offsets of the chunks
    c_pc,            \* chunk_text: "loop" or "done"
    uploaded_files,  \* main: the files in the uploader at the last indexing click
    to_index,        \* main: the documents queued by the last indexing click
    collection       \* the ids of the documents in the Chroma collection "docs"

vars == <<messages, response_mode, system_prompt, SERPAPI_KEY, run, h_in, h_out,
          c_text, c_size, c_overlap, c_start, c_chunks, c_spans, c_pc, uploaded_files,
          to_index, collection>>

chat_vars == <<messages, response_mode, system_prompt, SERPAPI_KEY, run>>
h_vars == <<h_in, h_out>>
c_vars == <<c_text, c_size, c_overlap, c_start, c_chunks, c_spans, c_pc>>
i_vars == <<uploaded_files, to_index, collection>>

----------------------------------------------------------------------------
(* Bounds of the model and constants of the program *)

MaxTurns == 2
MaxMatches == 2
MaxHistory == 2
MaxLen == 10
MaxSize == 4

TOP_K == 4
NUM_RESULTS == 3
DISTANCE_THRESHOLD == 150000
CHUNK_SIZE == 500
OVERLAP == 50

----------------------------------------------------------------------------
(* Strings *)

Min(a, b) == IF a < b THEN a ELSE b
Max(a, b) == IF a > b THEN a ELSE b

Digits == <<"0", "1", "2", "3", "4", "5", "6", "7", "8", "9">>

RECURSIVE DecStr(_)
\* str(n) for n >= 0
DecStr(n) == IF n < 10 THEN <<Digits[n + 1]>>
             ELSE DecStr(n \div 10) \o <<Digits[(n % 10) + 1]>>

\* format(d, ".4f") of a distance of d units of 1e-5: rounded to 4 decimals
Fmt4f(d) ==
    LET r == (d + 5) \div 10
        f == r % 10000
    IN  DecStr(r \div 10000) \o <<".">> \o
        <<Digits[(f \div 1000) + 1], Digits[((f \div 100) % 10) + 1],
          Digits[((f \div 10) % 10) + 1], Digits[(f % 10) + 1]>>

RECURSIVE Join(_, _)
\* sep.join(parts)
Join(sep, parts) ==
    IF parts = << >> THEN << >>
    ELSE IF Len(parts) = 1 THEN parts[1]
    ELSE parts[1] \o sep \o Join(sep, Tail(parts))

\* str.lower() on the mode strings the model uses
Lower(s) ==
    CASE s = "Detailed" -> "detailed"
      [] s = "Concise" -> "concise"
      [] s = "CONCISE" -> "concise"
      [] OTHER -> s

\* all sequences over S of length at most n
SeqsUpTo(S, n) == UNION {[1..k -> S] : k \in 0..n}

----------------------------------------------------------------------------
(* utils/rag_utils.py: retrieve *)

\* What the vector index does for one query: the collection does not exist,
\* the embedder or the query raises, or it returns its matches best-first.
retrieve(index, k) ==
    CASE index.kind = "no_collection" -> [raised |-> FALSE, docs |-> << >>]
      [] index.kind = "error" -> [raised |-> TRUE, docs |-> << >>]
      [] OTHER -> [raised |-> FALSE,
                   docs |-> SubSeq(index.docs, 1, Min(Len(index.docs), k))]

----------------------------------------------------------------------------
(* app.py: build_context_for_query *)

CONTEXT_SEPARATOR == <<"\n\n---\n\n">>

IsRelevant_LE(d) == d.distance <= DISTANCE_THRESHOLD

\* d.get("distance", 100) < 1.5
IsRelevant(d) == d.distance < DISTANCE_THRESHOLD

\* f"Source {i+1} (score {d.get('distance',0):.4f}): {d['text']}", n = i+1
Piece(n, d) ==
    <<"Source ">> \o DecStr(n) \o <<" (score ">> \o Fmt4f(d.distance) \o <<"): ">> \o d.text

build_context_for_query(index, top_k) ==
    LET r == retrieve(index, top_k)
    IN  IF r.raised THEN << >>
        ELSE IF r.docs = << >> THEN << >>
        ELSE LET relevant_docs == SelectSeq(r.docs, IsRelevant)
             IN  IF relevant_docs = << >> THEN << >>
                 ELSE Join(CONTEXT_SEPARATOR,
                           [i \in 1..Len(relevant_docs) |-> Piece(i, relevant_docs[i])])

----------------------------------------------------------------------------
(* utils/web_search.py: serpapi_search *)

ResultSnippet_TitleFirst(r) ==
    IF r.title # << >> THEN r.title
    ELSE IF r.snippet # << >> THEN r.snippet
    ELSE IF r.snippet_text # << >> THEN r.snippet_text
    ELSE << >>

\* r.get("snippet") or r.get("title") or r.get("snippet_text") or "";
\* a field that is absent, None or "" is << >>
ResultSnippet(r) ==
    IF r.snippet # << >> THEN r.snippet
    ELSE IF r.title # << >> THEN r.title
    ELSE IF r.snippet_text # << >> THEN r.snippet_text
    ELSE << >>

\* resp.ok = FALSE: requests.get or resp.json() raises, or the payload is not
\* a mapping of result mappings; every such exception is caught
serpapi_search(key, resp, num_results) ==
    IF key = << >> THEN << >>
    ELSE IF ~resp.ok THEN << >>
    ELSE [i \in 1..Min(Len(resp.results), num_results) |-> ResultSnippet(resp.results[i])]

----------------------------------------------------------------------------
(* app.py: get_chat_response *)

SystemMessage(content) == [type |-> "system", content |-> content]
HumanMessage(content) == [type |-> "human", content |-> content]
AIMessage(content) == [type |-> "ai", content |-> content]

CONCISE_DIRECTIVE ==
    <<"Be concise: 2-3 sentences max, direct answers only, no examples or background.">>
DETAILED_DIRECTIVE ==
    <<"Be detailed: 5+ sentences with examples, step-by-step reasoning, context, and best practices.">>
CONTEXT_PREFIX == <<"Relevant context from documents:\n">>
TRACEBACK == <<"Traceback (most recent call last): ...">>

ContextMessage(retrieval_context) == SystemMessage(CONTEXT_PREFIX \o retrieval_context)

\* lines 50-54
HistoryMessage(msg) ==
    IF msg.role = "user" THEN HumanMessage(msg.content) ELSE AIMessage(msg.content)

\* lines 56-59
ModeDirective(mode) ==
    IF Lower(mode) = "concise" THEN SystemMessage(CONCISE_DIRECTIVE)
    ELSE SystemMessage(DETAILED_DIRECTIVE)

Formatted_SkipEmptyPersona(history, prompt_text, retrieval_context, mode) ==
    (IF prompt_text # << >> THEN <<SystemMessage(prompt_text)>> ELSE << >>)
    \o (IF retrieval_context # << >> THEN <<ContextMessage(retrieval_context)>> ELSE << >>)
    \o [i \in 1..Len(history) |-> HistoryMessage(history[i])]
    \o <<ModeDirective(mode)>>

\* lines 45-59: the list handed to chat_model.invoke
Formatted(history, prompt_text, retrieval_context, mode) ==
    <<SystemMessage(prompt_text)>>
    \o (IF retrieval_context # << >> THEN <<ContextMessage(retrieval_context)>> ELSE << >>)
    \o [i \in 1..Len(history) |-> HistoryMessage(history[i])]
    \o <<ModeDirective(mode)>>

ErrorText_Bare(e) == e

\* lines 64-66
ErrorText(e) ==
    <<"Error getting response: ">> \o e \o <<".\n\nTraceback:\n">> \o TRACEBACK

\* lines 61-66: invoke either returns a response with .content or raises e
get_chat_response(invoke, history, prompt_text, retrieval_context, mode) ==
    IF invoke.raises THEN ErrorText(invoke.e) ELSE invoke.content

----------------------------------------------------------------------------
(* app.py: chat_page *)

NOT_INITIALIZED ==
    <<"Model not initialized. Please set GROQ_API_KEY in your environment and restart the app.">>
WEB_SEARCH_TAG == <<" + Web Search">>

UserEntry(content) == [role |-> "user", content |-> content]
AssistantEntry(content) == [role |-> "assistant", content |-> content]

\* line 181
AppendUser(transcript, prompt) == Append(transcript, UserEntry(prompt))

AppendAssistant_Skip(transcript, text) == transcript

\* lines 191 and 233
AppendAssistant(transcript, text) == Append(transcript, AssistantEntry(text))

NeedsFallback_IsNone(retrieval_context) == FALSE

\* line 199: if not retrieval_context
NeedsFallback(retrieval_context) == retrieval_context = << >>

\* lines 201-203: what the snippets make of the context and of the flag
FallbackContext(built, snippets) ==
    IF snippets # << >>
    THEN [retrieval_context |-> Join(<<"\n\n">>, snippets), used_fallback_search |-> TRUE]
    ELSE [retrieval_context |-> built, used_fallback_search |-> FALSE]

ModeLabel_NotDetailed(mode, used_fallback_search) ==
    (IF mode # "detailed" THEN <<"Concise Mode">> ELSE <<"Detailed Mode">>)
    \o (IF used_fallback_search THEN WEB_SEARCH_TAG ELSE << >>)

\* lines 225-227
ModeLabel(mode, used_fallback_search) ==
    (IF mode = "concise" THEN <<"Concise Mode">> ELSE <<"Detailed Mode">>)
    \o (IF used_fallback_search THEN WEB_SEARCH_TAG ELSE << >>)

\* The inputs of one turn
Prompts == {<<"What is RAG?">>}
Distances == {30000, 149996, 150000}
Matches == [text : {<<"doc">>}, distance : Distances]
IndexOutcomes ==
    {[kind |-> "no_collection", docs |-> << >>], [kind |-> "error", docs |-> << >>]}
    \cup [kind : {"results"}, docs : SeqsUpTo(Matches, Min(TOP_K, MaxMatches))]

rS == [snippet |-> <<"s">>, title |-> <<"t">>, snippet_text |-> << >>]
rT == [snippet |-> << >>, title |-> <<"t">>, snippet_text |-> << >>]
rX == [snippet |-> << >>, title |-> << >>, snippet_text |-> <<"x">>]
rN == [snippet |-> << >>, title |-> << >>, snippet_text |-> << >>]
ResultKinds == {rS, rT, rX, rN}
SearchPayloads ==
    SeqsUpTo(ResultKinds, 1)
    \cup {<<rN, rN>>, <<rT, rN>>, <<rS, rT, rX>>, <<rS, rT, rX, rN>>, <<rN, rN, rN, rS>>}
NoResponse == [ok |-> FALSE, results |-> << >>]
SearchResponses == {NoResponse} \cup [ok : {TRUE}, results : SearchPayloads]
InvokeOutcomes ==
    {[raises |-> TRUE, e |-> << >>, content |-> << >>],
     [raises |-> FALSE, e |-> << >>, content |-> <<"answer">>]}
SessionModes == {"Detailed", "Concise"}
SystemPrompts == {<< >>, <<"You are a helpful tutor.">>}
Keys == {<< >>, <<"serpapi-key">>}

\* The locals of a script run in which no message was submitted
NoRun ==
    [kind |-> "none", prompt |-> << >>, model_available |-> TRUE,
     index |-> [kind |-> "no_collection", docs |-> << >>],
     context_built |-> FALSE, built |-> << >>,
     web_called |-> FALSE, resp |-> NoResponse, snippets |-> << >>,
     retrieval_context |-> << >>, used_fallback_search |-> FALSE,
     mode |-> "", invoked |-> FALSE,
     invoke |-> [raises |-> FALSE, e |-> << >>, content |-> << >>],
     formatted |-> << >>, response_text |-> << >>, mode_label |-> << >>]

\* lines 179-192: a message is submitted and get_chatgroq_model has raised
TurnModelUnavailable(prompt) ==
    /\ Len(messages) < 2 * MaxTurns
    /\ LET m1 == AppendUser(messages, prompt)
       IN  /\ messages' = AppendAssistant(m1, NOT_INITIALIZED)
           /\ run' = [NoRun EXCEPT !.kind = "turn", !.prompt = prompt,
                                   !.model_available = FALSE,
                                   !.response_text = NOT_INITIALIZED]
    /\ UNCHANGED <<response_mode, system_prompt, SERPAPI_KEY, h_vars, c_vars, i_vars>>

\* lines 179-233: a message is submitted and the model object exists; the
\* search request is made only on the fallback path with a key configured
TurnModelAvailable(prompt, index, invoke) ==
    /\ Len(messages) < 2 * MaxTurns
    /\ LET m1 == AppendUser(messages, prompt)
           built == build_context_for_query(index, TOP_K)
           fallback == NeedsFallback(built)
           mode == Lower(response_mode)
       IN  \E resp \in (IF fallback /\ SERPAPI_KEY # << >> THEN SearchResponses
                        ELSE {NoResponse}) :
             LET snippets == IF fallback
                             THEN serpapi_search(SERPAPI_KEY, resp, NUM_RESULTS)
                             ELSE << >>
                 fb == IF fallback THEN FallbackContext(built, snippets)
                       ELSE [retrieval_context |-> built, used_fallback_search |-> FALSE]
                 response_text == get_chat_response(invoke, m1, system_prompt,
                                                    fb.retrieval_context, mode)
             IN  /\ messages' = AppendAssistant(m1, response_text)
                 /\ run' = [kind |-> "turn", prompt |-> prompt, model_available |-> TRUE,
                            index |-> index, context_built |-> TRUE, built |-> built,
                            web_called |-> fallback, resp |-> resp, snippets |-> snippets,
                            retrieval_context |-> fb.retrieval_context,
                            used_fallback_search |-> fb.used_fallback_search,
                            mode |-> mode, invoked |-> TRUE, invoke |-> invoke,
                            formatted |-> Formatted(m1, system_prompt,
                                                    fb.retrieval_context, mode),
                            response_text |-> response_text,
                            mode_label |-> ModeLabel(mode, fb.used_fallback_search)]
    /\ UNCHANGED <<response_mode, system_prompt, SERPAPI_KEY, h_vars, c_vars, i_vars>>

\* main, lines 334-336: the Clear Chat History button, then a rerun
ClearHistory ==
    /\ messages' = << >>
    /\ run' = NoRun
    /\ UNCHANGED <<response_mode, system_prompt, SERPAPI_KEY, h_vars, c_vars, i_vars>>

\* main, line 267: the response-mode selectbox, then a rerun
SetResponseMode(m) ==
    /\ m # response_mode
    /\ response_mode' = m
    /\ run' = NoRun
    /\ UNCHANGED <<messages, system_prompt, SERPAPI_KEY, h_vars, c_vars, i_vars>>

\* main, line 270: the system-prompt text area, then a rerun
SetSystemPrompt(p) ==
    /\ p # system_prompt
    /\ system_prompt' = p
    /\ run' = NoRun
    /\ UNCHANGED <<messages, response_mode, SERPAPI_KEY, h_vars, c_vars, i_vars>>

----------------------------------------------------------------------------
(* get_chat_response and the reply rendering of chat_page as functions of   *)
(* their arguments                                                          *)

Roles == {"user", "assistant", "tool"}
Modes == {"Detailed", "Concise", "CONCISE", "concise", "detailed", "anything_else"}
Histories == SeqsUpTo([role : Roles, content : {<<"hi">>}], MaxHistory)
Contexts == {<< >>, <<"Source 1 (score 0.3000): doc">>}
ComposeInputs ==
    [history : Histories, system_prompt : SystemPrompts, context : Contexts,
     mode : Modes, used_fallback_search : BOOLEAN]
NoOutput == [kind |-> "none", formatted |-> << >>, mode_label |-> << >>]

\* get_chat_response(chat_model, history, system_prompt, context, mode), lines 45-59
CallGetChatResponse ==
    /\ h_out' = [kind |-> "direct",
                 formatted |-> Formatted(h_in.history, h_in.system_prompt,
                                         h_in.context, h_in.mode),
                 mode_label |-> << >>]
    /\ UNCHANGED <<h_in, chat_vars, c_vars, i_vars>>

\* chat_page, lines 206-227, for a session whose response_mode is h_in.mode
RenderReply ==
    /\ LET mode == Lower(h_in.mode)
       IN  h_out' = [kind |-> "page",
                     formatted |-> Formatted(h_in.history, h_in.system_prompt,
                                             h_in.context, mode),
                     mode_label |-> ModeLabel(mode, h_in.used_fallback_search)]
    /\ UNCHANGED <<h_in, chat_vars, c_vars, i_vars>>

----------------------------------------------------------------------------
(* utils/rag_utils.py: chunk_text, and the indexing click of main *)

Letters == <<"a", "b", "c", "d", "e", "f", "g", "h", "i", "j", "k", "l", "m", "n", "o", "p">>
Whitespace == {" ", "\n", "\t"}

\* text[start:end] of Python, negative indices counted from the end
PySlice(text, start, end) ==
    LET n == Len(text)
        lo == IF start < 0 THEN Max(start + n, 0) ELSE Min(start, n)
        hi == IF end < 0 THEN Max(end + n, 0) ELSE Min(end, n)
    IN  IF hi <= lo THEN << >> ELSE SubSeq(text, lo + 1, hi)

RECURSIVE LStrip(_)
LStrip(text) ==
    IF text # << >> /\ Head(text) \in Whitespace THEN LStrip(Tail(text)) ELSE text

RECURSIVE RStrip(_)
RStrip(text) ==
    IF text # << >> /\ text[Len(text)] \in Whitespace
    THEN RStrip(SubSeq(text, 1, Len(text) - 1)) ELSE text

\* str.strip()
Strip(text) == RStrip(LStrip(text))

\* line 33
WindowEnd(start, chunk_size, length) == Min(start + chunk_size, length)

Advance_NoOverlap(start, chunk_size, overlap) == start + chunk_size

Advance_ClampStride(start, chunk_size, overlap) == start + Max(chunk_size - overlap, 1)

\* line 36
Advance(start, chunk_size, overlap) == start + chunk_size - overlap

RECURSIVE ChunkLoop(_, _, _, _, _)
\* lines 32-37
ChunkLoop(text, chunk_size, overlap, start, chunks) ==
    IF start < Len(text)
    THEN ChunkLoop(text, chunk_size, overlap, Advance(start, chunk_size, overlap),
                   Append(chunks, PySlice(text, start,
                                          WindowEnd(start, chunk_size, Len(text)))))
    ELSE chunks

\* chunk_text for chunk_size > overlap, where the loop ends
chunk_text(text, chunk_size, overlap) == ChunkLoop(text, chunk_size, overlap, 0, << >>)

\* lines 32-36: one pass of the while loop
ChunkStep ==
    /\ c_pc = "loop"
    /\ c_start < Len(c_text)
    /\ Len(c_chunks) <= MaxLen
    /\ LET end == WindowEnd(c_start, c_size, Len(c_text))
       IN  /\ c_chunks' = Append(c_chunks, PySlice(c_text, c_start, end))
           /\ c_spans' = Append(c_spans, <<c_start, end>>)
    /\ c_start' = Advance(c_start, c_size, c_overlap)
    /\ UNCHANGED <<c_text, c_size, c_overlap, c_pc, chat_vars, h_vars, i_vars>>

\* lines 32 and 37: the loop condition fails and chunks is returned
ChunkReturn ==
    /\ c_pc = "loop"
    /\ ~(c_start < Len(c_text))
    /\ c_pc' = "done"
    /\ UNCHANGED <<c_text, c_size, c_overlap, c_start, c_chunks, c_spans,
                   chat_vars, h_vars, i_vars>>

ChunkTexts ==
    {SubSeq(Letters, 1, n) : n \in 0..MaxLen}
    \cup {<<" ">>, <<" ", "\n">>, <<"\t", " ", " ">>}

\* the decoded text of the files a user may upload
Uploads ==
    {[name |-> "notes.txt", text |-> <<"a", "b", "c">>],
     [name |-> "padded.md", text |-> <<" ", "a", "\n">>],
     [name |-> "blank.txt", text |-> <<" ", "\n">>],
     [name |-> "empty.pdf", text |-> << >>]}

SkipFile_EmptyOnly(full_text) == full_text = << >>

\* line 311: if not full_text.strip()
SkipFile(full_text) == Strip(full_text) = << >>

\* lines 316-319: the documents of one file
FileDocs(file) ==
    LET chunks == chunk_text(file.text, CHUNK_SIZE, OVERLAP)
    IN  [i \in 1..Len(chunks) |->
            [id |-> <<file.name, "_chunk_">> \o DecStr(i - 1), text |-> chunks[i],
             meta |-> [source |-> file.name, chunk |-> i - 1]]]

RECURSIVE QueueFiles(_)
\* lines 282-322: to_index over the uploaded files, in order
QueueFiles(files) ==
    IF files = << >> THEN << >>
    ELSE (IF SkipFile(Head(files).text) THEN << >> ELSE FileDocs(Head(files)))
         \o QueueFiles(Tail(files))

\* main, lines 278-329: the Index uploaded files button
\* (index_documents, line 326, adds every queued id or raises and adds none)
IndexUploadedFiles(files, add_ok) ==
    /\ c_pc = "idle"
    /\ uploaded_files' = files
    /\ to_index' = QueueFiles(files)
    /\ collection' = IF to_index' # << >> /\ add_ok
                     THEN collection \cup {to_index'[i].id : i \in 1..Len(to_index')}
                     ELSE collection
    /\ UNCHANGED <<chat_vars, h_vars, c_vars>>

----------------------------------------------------------------------------
(* Specifications *)

ChatIdle ==
    /\ messages = << >>
    /\ response_mode = "Detailed"
    /\ system_prompt = << >>
    /\ run = NoRun

ComposeIdle ==
    /\ h_in = [history |-> << >>, system_prompt |-> << >>, context |-> << >>,
               mode |-> "Detailed", used_fallback_search |-> FALSE]
    /\ h_out = NoOutput

ChunkIdle ==
    /\ c_text = << >>
    /\ c_size = CHUNK_SIZE
    /\ c_overlap = OVERLAP
    /\ c_start = 0
    /\ c_chunks = << >>
    /\ c_spans = << >>
    /\ c_pc = "idle"

IngestIdle ==
    /\ uploaded_files = << >>
    /\ to_index = << >>
    /\ collection = {}

\* The chat session: main, lines 246-251, and the environment's search key
Init ==
    /\ ChatIdle
    /\ SERPAPI_KEY \in Keys
    /\ ComposeIdle /\ ChunkIdle /\ IngestIdle

Next ==
    \/ \E prompt \in Prompts : TurnModelUnavailable(prompt)
    \/ \E prompt \in Prompts, index \in IndexOutcomes, invoke \in InvokeOutcomes :
          TurnModelAvailable(prompt, index, invoke)
    \/ ClearHistory
    \/ \E m \in SessionModes : SetResponseMode(m)
    \/ \E p \in SystemPrompts : SetSystemPrompt(p)

Spec == Init /\ [][Next]_vars

\* get_chat_response and the reply rendering on every argument
InitCompose ==
    /\ ChatIdle
    /\ SERPAPI_KEY = << >>
    /\ h_in \in ComposeInputs
    /\ h_out = NoOutput
    /\ ChunkIdle /\ IngestIdle

NextCompose == CallGetChatResponse \/ RenderReply

SpecCompose == InitCompose /\ [][NextCompose]_vars

\* Either chunk_text is called on its own, on every argument, or the app
\* runs and its indexing button is clicked (c_pc = "idle")
InitIngest ==
    /\ ChatIdle
    /\ SERPAPI_KEY = << >>
    /\ ComposeIdle
    /\ \/ /\ c_text \in ChunkTexts
          /\ c_size \in 1..MaxSize
          /\ c_overlap \in 0..MaxSize
          /\ c_start = 0
          /\ c_chunks = << >>
          /\ c_spans = << >>
          /\ c_pc = "loop"
       \/ ChunkIdle
    /\ IngestIdle

NextIngest ==
    \/ ChunkStep
    \/ ChunkReturn
    \/ \E files \in SeqsUpTo(Uploads, 2), add_ok \in BOOLEAN :
          IndexUploadedFiles(files, add_ok)

SpecIngest == InitIngest /\ [][NextIngest]_vars

\* A call of chunk_text that is running keeps running: the while loop takes
\* its next pass, and returns once its condition fails
SpecIngestFair ==
    SpecIngest /\ WF_vars(ChunkStep) /\ WF_vars(ChunkReturn)

----------------------------------------------------------------------------
(* The claims *)

\* What the index returned for the last turn's query: no matches when the
\* collection is missing or the query failed
ReturnedMatches ==
    IF run.index.kind = "results" THEN run.index.docs ELSE << >>

IsTurn == run.kind = "turn"

\* C1: in every turn the web search is invoked if and only if the Context
\* Builder returned the empty string in that turn (in a turn with no model
\* neither is invoked).
C1_FallbackIffEmptyContext ==
    IsTurn =>
        /\ run.web_called <=> (run.context_built /\ run.built = << >>)
        /\ ~run.model_available => ~run.context_built /\ ~run.web_called

C1_Witness ==
    /\ IsTurn /\ run.web_called
    /\ ReturnedMatches # << >>
    /\ SERPAPI_KEY # << >> /\ run.snippets # << >>

\* C2: the context is built from exactly the matches with distance < 1.5, in
\* the order the index returned them; it is empty if and only if the index
\* returned no matches (a failure included) or every match has distance >= 1.5;
\* the context the composer gets from the index holds no other match.
C2_ContextFromRelevantMatches ==
    (IsTurn /\ run.context_built) =>
        LET docs == ReturnedMatches
            kept == {i \in 1..Len(docs) : docs[i].distance < DISTANCE_THRESHOLD}
            n == Cardinality(kept)
        IN  /\ run.built = << >> <=>
                  \/ docs = << >>
                  \/ \A i \in 1..Len(docs) : docs[i].distance >= DISTANCE_THRESHOLD
            /\ kept # {} =>
                 \E f \in [1..n -> kept] :
                    /\ \A j, k \in 1..n : j < k => f[j] < f[k]
                    /\ run.built =
                         Join(CONTEXT_SEPARATOR, [k \in 1..n |-> Piece(k, docs[f[k]])])
            /\ run.built # << >> =>
                 /\ run.retrieval_context = run.built
                 /\ run.formatted[2] = SystemMessage(CONTEXT_PREFIX \o run.built)

C2_Witness ==
    /\ IsTurn /\ run.context_built
    /\ Len(ReturnedMatches) = 2
    /\ ReturnedMatches[1].distance >= DISTANCE_THRESHOLD
    /\ ReturnedMatches[2].distance < DISTANCE_THRESHOLD
    /\ run.built # << >>

\* C3: a turn in which the completion call raises, or in which the model was
\* never initialized, adds exactly two entries to the transcript: the user's
\* input, then an assistant entry with a non-empty error text; the earlier
\* entries stay as they were.
C3_FailedTurnAppendsTwo ==
    [][ (run'.kind = "turn" /\ (~run'.model_available \/ run'.invoke.raises)) =>
          LET n == Len(messages)
          IN  /\ Len(messages') = n + 2
              /\ SubSeq(messages', 1, n) = messages
              /\ messages'[n + 1] = [role |-> "user", content |-> run'.prompt]
              /\ messages'[n + 2].role = "assistant"
              /\ messages'[n + 2].content # << >>
              /\ messages'[n + 2].content = run'.response_text ]_vars

C3_Witness ==
    /\ IsTurn /\ run.invoked /\ run.invoke.raises
    /\ Len(messages) = 4
    /\ messages[2].content = NOT_INITIALIZED

\* C10: the transcript has even length and alternates user, assistant, ...;
\* a turn appends exactly two entries and changes no earlier one; only
\* clear-history removes entries, and it empties the transcript.
AlternatingTranscript ==
    /\ Len(messages) % 2 = 0
    /\ \A i \in 1..Len(messages) :
          messages[i].role = (IF i % 2 = 1 THEN "user" ELSE "assistant")

IsPrefix(a, b) == Len(a) <= Len(b) /\ SubSeq(b, 1, Len(a)) = a

C10_Step ==
    /\ run'.kind = "turn" =>
          /\ Len(messages') = Len(messages) + 2
          /\ IsPrefix(messages, messages')
    /\ run'.kind # "turn" => (messages' = messages \/ messages' = << >>)
    /\ ~IsPrefix(messages, messages') =>
          /\ messages' = << >>
          /\ response_mode' = response_mode /\ system_prompt' = system_prompt

C10_TranscriptAlternates == [](AlternatingTranscript) /\ [][C10_Step]_vars

C10_Witness ==
    /\ Len(messages) = 4
    /\ messages[2].content = <<"answer">>
    /\ IsTurn /\ ~run.model_available

HasWebTag(label) == label # << >> /\ <<label[Len(label)]>> = WEB_SEARCH_TAG

\* C5: in a turn that reaches the model, the label carries the web-search
\* indicator if and only if the context handed to the composer is non-empty
\* and is the join of the web snippets; with the indicator shown, a context
\* message equal to that join is in the composed sequence.
C5_WebTagIffWebContext ==
    (IsTurn /\ run.invoked) =>
        /\ HasWebTag(run.mode_label) <=>
              /\ run.web_called
              /\ run.retrieval_context # << >>
              /\ run.retrieval_context = Join(<<"\n\n">>, run.snippets)
        /\ HasWebTag(run.mode_label) =>
              \E i \in 1..Len(run.formatted) :
                 run.formatted[i] =
                     SystemMessage(CONTEXT_PREFIX \o Join(<<"\n\n">>, run.snippets))

\* The snippets the claims expect of a search call with the key configured
SnippetsOf(resp, Pick(_)) ==
    IF ~resp.ok THEN << >>
    ELSE [i \in 1..Len(resp.results) |-> Pick(resp.results[i])]

PickSnippetTitle(r) ==
    CASE r.snippet # << >> -> r.snippet
      [] r.snippet = << >> /\ r.title # << >> -> r.title
      [] OTHER -> << >>

PickSnippetTitleText(r) ==
    CASE r.snippet # << >> -> r.snippet
      [] r.snippet = << >> /\ r.title # << >> -> r.title
      [] r.snippet = << >> /\ r.title = << >> -> r.snippet_text

SearchContract(Pick(_)) ==
    (IsTurn /\ run.web_called) =>
        LET all == SnippetsOf(run.resp, Pick)
        IN  /\ SERPAPI_KEY = << >> => run.snippets = << >>
            /\ ~run.resp.ok => run.snippets = << >>
            /\ SERPAPI_KEY # << >> =>
                  /\ Len(run.snippets) <= NUM_RESULTS
                  /\ IsPrefix(run.snippets, all)
                  /\ Len(run.snippets) < Len(all) => Len(run.snippets) = NUM_RESULTS
            /\ run.snippets = << >> =>
                  /\ run.invoked
                  /\ run.retrieval_context = << >>
                  /\ Len(run.formatted) = Len(messages) - 1 + 2
                  /\ ~HasWebTag(run.mode_label)

\* C7 as stated: a result yields its snippet field, else its title, else the
\* empty string.
C7_SnippetElseTitleElseEmpty == SearchContract(PickSnippetTitle)

\* C7: the search returns the empty sequence when the key is missing, the
\* request fails or the payload is malformed; otherwise at most num_results
\* snippets in provider order, one per result: its snippet field, else its
\* title, else its snippet_text field, else the empty string. When it returns
\* the empty sequence the turn goes on to the model with an empty context and
\* no web-search indicator.
C7_SearchNeverRaises == SearchContract(PickSnippetTitleText)

C7_Witness ==
    /\ IsTurn /\ run.web_called /\ run.resp.ok
    /\ Len(run.resp.results) = NUM_RESULTS + 1
    /\ run.resp.results[3].snippet_text # << >>
    /\ Len(run.snippets) = NUM_RESULTS

BrevityMessage == [type |-> "system", content |-> CONCISE_DIRECTIVE]
DetailMessage == [type |-> "system", content |-> DETAILED_DIRECTIVE]

\* C4: the composed sequence is the persona system message first (also when
\* the system prompt is empty), the context system message second if and only
\* if the context is non-empty, one message per history entry in order (user
\* to a user message, any other role to an assistant message), and exactly
\* one verbosity directive, last; its length is len(history) + 2, plus 1 with
\* a non-empty context.
C4_CompositionOrder ==
    h_out.kind = "direct" =>
        LET f == h_out.formatted
            n == Len(h_in.history)
            c == IF h_in.context # << >> THEN 1 ELSE 0
        IN  /\ Len(f) = n + 2 + c
            /\ f[1] = [type |-> "system", content |-> h_in.system_prompt]
            /\ h_in.context # << >> =>
                  f[2] = [type |-> "system", content |-> CONTEXT_PREFIX \o h_in.context]
            /\ h_in.context = << >> =>
                  \A i \in 1..Len(f) :
                     ~(f[i].type = "system" /\ IsPrefix(CONTEXT_PREFIX, f[i].content))
            /\ \A i \in 1..n :
                  f[1 + c + i] =
                     [type |-> IF h_in.history[i].role = "user" THEN "human" ELSE "ai",
                      content |-> h_in.history[i].content]
            /\ f[Len(f)] \in {BrevityMessage, DetailMessage}
            /\ Cardinality({i \in 1..Len(f) : f[i] \in {BrevityMessage, DetailMessage}}) = 1

C4_Witness ==
    /\ h_out.kind = "direct"
    /\ h_in.system_prompt = << >> /\ h_in.context # << >>
    /\ Len(h_in.history) = 2
    /\ h_in.history[1].role = "tool" /\ h_in.history[2].role = "user"

ConciseValues == {"concise", "Concise", "CONCISE"}

\* C6: the last composed message is the brevity directive exactly when the
\* mode is the concise value (in any letter case) and the detail directive for
\* every other value; the mode named in the label of the reply agrees with
\* the directive that was sent.
C6_DirectiveAndLabelAgree ==
    h_out.kind # "none" =>
        LET last == h_out.formatted[Len(h_out.formatted)]
        IN  /\ h_in.mode \in ConciseValues => last = BrevityMessage
            /\ h_in.mode \notin ConciseValues => last = DetailMessage
            /\ h_out.kind = "page" =>
                  /\ Head(h_out.mode_label) \in {"Concise Mode", "Detailed Mode"}
                  /\ Head(h_out.mode_label) = "Concise Mode" <=> last = BrevityMessage

C6_Witness ==
    /\ h_out.kind = "page"
    /\ h_in.mode = "anything_else"
    /\ Head(h_out.mode_label) = "Detailed Mode"

SpanOffsets(i) == c_spans[i][1] .. (c_spans[i][2] - 1)

\* the number of characters chunk i shares with chunk i + 1
Overlap(i) == Cardinality(SpanOffsets(i) \cap SpanOffsets(i + 1))

ChunkCallDone == c_pc = "done" /\ 0 < c_overlap /\ c_overlap < c_size

ChunksAreWindows ==
    /\ Len(c_chunks) = Len(c_spans)
    /\ \A i \in 1..Len(c_chunks) :
          c_chunks[i] = SubSeq(c_text, c_spans[i][1] + 1, c_spans[i][2])

ChunksCoverText ==
    UNION {SpanOffsets(i) : i \in 1..Len(c_spans)} = 0 .. (Len(c_text) - 1)

ScenarioA ==
    (c_text = SubSeq(Letters, 1, 10) /\ c_size = 4 /\ c_overlap = 1) =>
        c_chunks = <<SubSeq(Letters, 1, 4), SubSeq(Letters, 4, 7),
                     SubSeq(Letters, 7, 10), SubSeq(Letters, 10, 10)>>

\* C8 as stated: the chunks cover [0, L) and every pair of consecutive chunks
\* overlaps by exactly o characters, except possibly the pair that ends with
\* the last chunk.
C8_OverlapExceptLastPair ==
    ChunkCallDone =>
        /\ ChunksAreWindows /\ ChunksCoverText /\ ScenarioA
        /\ \A i \in 1..(Len(c_chunks) - 2) : Overlap(i) = c_overlap

\* C8: for 0 < o < s the chunks cover every offset in [0, L); two consecutive
\* chunks overlap by exactly o characters when the first of them is a full
\* window of s characters and by fewer when the end of the text cut it short;
\* with 2*o <= s only the pair that ends with the last chunk can be cut short.
\* chunk_text("abcdefghij", 4, 1) = ["abcd", "defg", "ghij", "j"].
C8_ChunkCoverage ==
    ChunkCallDone =>
        /\ ChunksAreWindows /\ ChunksCoverText /\ ScenarioA
        /\ \A i \in 1..(Len(c_chunks) - 1) :
              /\ Len(c_chunks[i]) = c_size => Overlap(i) = c_overlap
              /\ Len(c_chunks[i]) < c_size => Overlap(i) < c_overlap
        /\ 2 * c_overlap <= c_size =>
              \A i \in 1..(Len(c_chunks) - 2) : Overlap(i) = c_overlap

C8_Witness ==
    /\ ChunkCallDone
    /\ c_size = 4 /\ c_overlap = 3 /\ Len(c_text) = 5
    /\ Len(c_chunks) = 5 /\ Overlap(3) = 2

AllWhitespace(text) == \A i \in 1..Len(text) : text[i] \in Whitespace

FileNamed(name) == CHOOSE file \in Uploads : file.name = name

NoBlankFileQueued ==
    /\ \A i \in 1..Len(to_index) :
          /\ \E k \in 1..Len(uploaded_files) :
                uploaded_files[k].name = to_index[i].meta.source
          /\ ~AllWhitespace(FileNamed(to_index[i].meta.source).text)
    /\ \A k \in 1..Len(uploaded_files) :
          AllWhitespace(uploaded_files[k].text) <=>
             ~\E i \in 1..Len(to_index) :
                 to_index[i].meta.source = uploaded_files[k].name

\* C9 as stated: for every text that is empty or only whitespace chunk_text
\* returns the empty sequence, and no chunk of such a document is queued.
C9_BlankTextNoChunks ==
    /\ (c_pc = "done" /\ AllWhitespace(c_text)) => c_chunks = << >>
    /\ NoBlankFileQueued

\* C9: chunk_text returns the empty sequence exactly for the empty text (a
\* text of whitespace only is cut into windows like any other); the indexing
\* click skips every file whose text is empty or only whitespace before it
\* calls chunk_text, so no chunk of such a document is queued for indexing.
C9_BlankFilesSkipped ==
    /\ c_pc = "done" => (c_chunks = << >> <=> c_text = << >>)
    /\ NoBlankFileQueued

C9_Witness ==
    /\ Len(uploaded_files) = 2
    /\ uploaded_files[1].name = "blank.txt"
    /\ uploaded_files[2].name = "padded.md"
    /\ Len(to_index) = 1

Stride == c_size - c_overlap

\* the windows of the claim: window i (from 0) is text[i*(s-o) : min(i*(s-o)+s, L)]
WindowsAsClaimed ==
    /\ Len(c_chunks) = (Len(c_text) + Stride - 1) \div Stride
    /\ \A k \in 1..Len(c_chunks) :
          c_chunks[k] = SubSeq(c_text, (k - 1) * Stride + 1,
                               Min((k - 1) * Stride + c_size, Len(c_text)))

ChunkDoneAsClaimed ==
    (c_pc = "done" /\ 0 <= c_overlap /\ c_overlap < c_size) => WindowsAsClaimed

\* with o >= s and a non-empty text the loop condition start < L never fails
ChunkLoopsForever ==
    (c_pc \in {"loop", "done"} /\ c_overlap >= c_size /\ c_text # << >>) =>
        /\ c_pc = "loop"
        /\ c_start <= 0 /\ c_start < Len(c_text)

\* C11: for 0 <= o < s the loop of chunk_text terminates and returns exactly
\* ceil(L / (s - o)) windows, window i being text[i*(s-o) : min(i*(s-o)+s, L)];
\* for a non-empty text with o >= s the start offset never passes L and the
\* loop never terminates.
C11_ChunkTermination ==
    /\ [](ChunkDoneAsClaimed /\ ChunkLoopsForever)
    /\ (c_pc = "loop" /\ c_overlap < c_size) ~> (c_pc = "done")

C11_Witness ==
    /\ c_pc = "done"
    /\ c_size = 3 /\ c_overlap = 0 /\ Len(c_text) = 10
    /\ Len(c_chunks) = 4 /\ c_chunks[4] = <<"j">>

====
